---- MODULE Spec2Model ----
(***************************************************************************)
(* GR GPIO controller (hw/gpio/gr_gpio.c) with the NOEL-SRG board wiring   *)
(* of its output lines (hw/riscv/noel_srg.c).                              *)
(*                                                                         *)
(* A C unsigned word is modelled as the set of the indices of its 1 bits: *)
(* & is intersection, | is union, ^ is symmetric difference and ~ is the   *)
(* complement within the width of the word.  uint32_t is a subset of       *)
(* 0..31 and uint64_t a subset of 0..63.                                   *)
(***************************************************************************)
EXTENDS Integers, Naturals, Sequences, FiniteSets, TLC

VARIABLES ngpio, value, dir, notif, op, pre_value, pre_dir, ret, hist

vars == <<ngpio, value, dir, notif, op, pre_value, pre_dir, ret, hist>>

(* ---------------------------- program constants ------------------------ *)

GR_GPIO_PINS == 32

GR_GPIO_SIZE == 256

GR_GPIO_REG_IN == 0

GR_GPIO_REG_OUT == 4

GR_GPIO_REG_DIR == 8

LOOPBACK_LINE == 22

(* ------------------------------- bounds -------------------------------- *)

\* number of pins whose bits the enumerated bus words and stimuli exercise
NumTestPins == 2

\* number of undefined register offsets that are exercised
NumBadOffsets == 2

(* --------------------------- word arithmetic --------------------------- *)

Bits32 == 0 .. 31

BitAnd(a, b) == a \cap b

BitOr(a, b) == a \cup b

BitXor(a, b) == (a \ b) \cup (b \ a)

BitNot32(a) == Bits32 \ a

\* conversion of a uint64_t to uint32_t keeps the low 32 bits
Trunc32(a) == a \cap Bits32

\* (1 << line), an int, converted to uint32_t
Shl1(line) == {line}

\* ~(1 << line) converted to uint32_t
NotShl1(line) == Bits32 \ {line}

\* int pin_mask = 1 << i, converted to uint32_t in "oldvalue & pin_mask"
\* and in "s->dir & pin_mask"
PinMask32(i) == {i}

\* int pin_mask = 1 << i, converted to uint64_t in "value & pin_mask":
\* the conversion sign-extends, so bit 31 drags bits 32..63 along
PinMask64(i) == IF i = 31 THEN 31 .. 63 ELSE {i}

(* ------------------------------ inputs --------------------------------- *)

\* the order in which pins enter the exercised set: the looped-back pin, the
\* sign bit of the int pin_mask, the lowest pin, then their neighbours
TestPinOrder == <<LOOPBACK_LINE, 31, 0, 1, 21, 30>>

TestPins == {TestPinOrder[k] : k \in 1 .. NumTestPins}

\* the bus hands gr_gpio_write a 4-byte datum: a uint64_t with bits 32..63 clear
Words == SUBSET TestPins

\* undefined offsets: the word after DIR, a misaligned offset inside OUT, the
\* last word of the window, ...
BadOffsetOrder == <<12, 6, GR_GPIO_SIZE - 4, 16, 128>>

BadOffsets == {BadOffsetOrder[k] : k \in 1 .. NumBadOffsets}

Offsets == {GR_GPIO_REG_IN, GR_GPIO_REG_OUT, GR_GPIO_REG_DIR} \cup BadOffsets

Levels == {0, 1}

\* widths, in bytes, of the guest's bus accesses.  gpio_ops sets only
\* .impl.min_access_size = .impl.max_access_size = 4 and no .valid limits, so
\* an access of any width is accepted and reaches the handlers (as a 4-byte
\* call carrying the zero-extended datum)
Sizes == {1, 2, 4}

\* what the guest receives of the word gr_gpio_read returned: its low bytes
GuestSees(r, size) == r \cap (0 .. (8 * size - 1))

\* the data a write of the given width can carry
WordsOf(size) == {w \in Words : w \subseteq 0 .. (8 * size - 1)}

\* the "ngpio" property.  The pin count enters the behaviour only through
\* "line < ngpio" for the exercised lines, so one count per class is drawn:
\* the smallest, the first that binds each exercised pin, and the default
PinCounts == {1, GR_GPIO_PINS} \cup {p + 1 : p \in TestPins}

(* ------------------------- device state record ------------------------- *)

\* s->value, s->dir, and the line notifications raised so far by the
\* operation in progress
DevState(v, d, n) == [value |-> v, dir |-> d, notif |-> n]

\* a call of gr_gpio_OUT_set or gr_gpio_DIR_set: st is the device state when
\* the line is raised, after the state when the line's consumer has returned
Notification(kind, line, level, st, after) ==
    [kind |-> kind, line |-> line, level |-> level,
     seen_value |-> st.value, seen_dir |-> st.dir, left_value |-> after.value]

(* ------------------------------ gr_gpio.c ------------------------------ *)

\* mutant: the direction of the pin is not tested
gr_gpio_IN_set_nodircheck(st, line, level) ==
    IF level # 0
    THEN [st EXCEPT !.value = BitOr(st.value, Shl1(line))]
    ELSE [st EXCEPT !.value = BitAnd(st.value, NotShl1(line))]

\* mutant: the clearing mask is not complemented
gr_gpio_IN_set_badclear(st, line, level) ==
    IF BitAnd(st.dir, Shl1(line)) = {}
    THEN IF level # 0
         THEN [st EXCEPT !.value = BitOr(st.value, Shl1(line))]
         ELSE [st EXCEPT !.value = BitAnd(st.value, Shl1(line))]
    ELSE st

\* mutant: the direction test is inverted
gr_gpio_IN_set_outputsonly(st, line, level) ==
    IF BitAnd(st.dir, Shl1(line)) # {}
    THEN IF level # 0
         THEN [st EXCEPT !.value = BitOr(st.value, Shl1(line))]
         ELSE [st EXCEPT !.value = BitAnd(st.value, NotShl1(line))]
    ELSE st

gr_gpio_IN_set(st, line, level) ==
    IF BitAnd(st.dir, Shl1(line)) = {}
    THEN IF level # 0
         THEN [st EXCEPT !.value = BitOr(st.value, Shl1(line))]
         ELSE [st EXCEPT !.value = BitAnd(st.value, NotShl1(line))]
    ELSE st

\* the board's consumer of an output line: line 22 is fed back into the
\* controller's input entry point
gpio_irq_handler(st, line, level) ==
    IF line = LOOPBACK_LINE
    THEN gr_gpio_IN_set(st, line, level)
    ELSE st

\* the board's consumer of a direction line
dir_irq_handler(st, line, level) == st

\* qemu_set_irq(s->gpio_out[line], value): lines 0..ngpio-1 are bound
gr_gpio_OUT_set(st, n, line, level) ==
    LET after == IF line < n THEN gpio_irq_handler(st, line, level) ELSE st
    IN  [after EXCEPT !.notif =
            Append(after.notif, Notification("out", line, level, st, after))]

\* mutant: the line is driven with the opposite level
gr_gpio_DIR_set_inverted(st, n, line, level) ==
    LET after == IF line < n THEN dir_irq_handler(st, line, 1 - level) ELSE st
    IN  [after EXCEPT !.notif =
            Append(after.notif, Notification("dir", line, 1 - level, st, after))]

\* qemu_set_irq(s->gpio_dir[line], value)
gr_gpio_DIR_set(st, n, line, level) ==
    LET after == IF line < n THEN dir_irq_handler(st, line, level) ELSE st
    IN  [after EXCEPT !.notif =
            Append(after.notif, Notification("dir", line, level, st, after))]

\* mutant: the direction register is forgotten
gr_gpio_reset_valueonly(st) == [st EXCEPT !.value = {}]

\* mutant: the reset announces the first output pin as an input
gr_gpio_reset_announcing(st) ==
    [st EXCEPT !.value = {}, !.dir = {},
               !.notif = IF st.dir = {} THEN st.notif
                         ELSE Append(st.notif,
                                     Notification("dir", CHOOSE i \in st.dir : TRUE,
                                                  0, st, st))]

gr_gpio_reset(st) == [st EXCEPT !.value = {}, !.dir = {}]

\* mutant: IN shows only the pins that are inputs
gr_gpio_read_inputsonly(st, offset) ==
    CASE offset = GR_GPIO_REG_IN  -> BitAnd(st.value, BitNot32(st.dir))
      [] offset = GR_GPIO_REG_OUT -> st.value
      [] offset = GR_GPIO_REG_DIR -> st.dir
      [] OTHER -> {}

gr_gpio_read(st, offset) ==
    CASE offset = GR_GPIO_REG_IN  -> st.value
      [] offset = GR_GPIO_REG_OUT -> st.value
      [] offset = GR_GPIO_REG_DIR -> st.dir
      [] OTHER -> {}

\* "(oldvalue & pin_mask) ^ (value & pin_mask)" is non-zero
BitDiffers(oldvalue, word, i) ==
    BitXor(BitAnd(oldvalue, PinMask32(i)), BitAnd(word, PinMask64(i))) # {}

\* "(value & pin_mask) ? 1 : 0"
NewLevel(word, i) == IF BitAnd(word, PinMask64(i)) # {} THEN 1 ELSE 0

\* mutant: the direction of the pin is not tested
OutPinFires_anydir(st, oldvalue, word, i) == BitDiffers(oldvalue, word, i)

\* the test that guards gr_gpio_OUT_set in the OUT loop
OutPinFires(st, oldvalue, word, i) ==
    /\ BitAnd(st.dir, PinMask32(i)) # {}
    /\ BitDiffers(oldvalue, word, i)

\* mutant: fires on the new level instead of on the change
DirPinFires_level(oldvalue, word, i) == BitAnd(word, PinMask64(i)) # {}

\* the test that guards gr_gpio_DIR_set in the DIR loop
DirPinFires(oldvalue, word, i) == BitDiffers(oldvalue, word, i)

\* mutant: the pins are visited from the highest down
RECURSIVE OutLoop_descending(_, _, _, _, _)
OutLoop_descending(i, st, n, oldvalue, word) ==
    IF i >= GR_GPIO_PINS THEN st
    ELSE IF OutPinFires(st, oldvalue, word, GR_GPIO_PINS - 1 - i)
         THEN OutLoop_descending(i + 1,
                                 gr_gpio_OUT_set(st, n, GR_GPIO_PINS - 1 - i,
                                                 NewLevel(word, GR_GPIO_PINS - 1 - i)),
                                 n, oldvalue, word)
         ELSE OutLoop_descending(i + 1, st, n, oldvalue, word)

\* "for (int i=0; i<GR_GPIO_PINS;i++)" of the OUT branch, from iteration i on
RECURSIVE OutLoop(_, _, _, _, _)
OutLoop(i, st, n, oldvalue, word) ==
    IF i >= GR_GPIO_PINS THEN st
    ELSE IF OutPinFires(st, oldvalue, word, i)
         THEN OutLoop(i + 1, gr_gpio_OUT_set(st, n, i, NewLevel(word, i)),
                      n, oldvalue, word)
         ELSE OutLoop(i + 1, st, n, oldvalue, word)

\* "for (int i=0; i<GR_GPIO_PINS;i++)" of the DIR branch, from iteration i on
RECURSIVE DirLoop(_, _, _, _, _)
DirLoop(i, st, n, oldvalue, word) ==
    IF i >= GR_GPIO_PINS THEN st
    ELSE IF DirPinFires(oldvalue, word, i)
         THEN DirLoop(i + 1, gr_gpio_DIR_set(st, n, i, NewLevel(word, i)),
                      n, oldvalue, word)
         ELSE DirLoop(i + 1, st, n, oldvalue, word)

\* mutant: the written word is stored without the direction mask
OutCommit_unmasked(st, word) == [st EXCEPT !.value = Trunc32(word)]

\* mutant: the direction mask is applied the wrong way round
OutCommit_swapped(st, word) ==
    [st EXCEPT !.value = Trunc32(BitOr(BitAnd(st.value, st.dir),
                                       BitAnd(word, BitNot32(st.dir))))]

\* "s->value = (s->value & ~(s->dir)) | (value & s->dir)"
OutCommit(st, word) ==
    [st EXCEPT !.value = Trunc32(BitOr(BitAnd(st.value, BitNot32(st.dir)),
                                       BitAnd(word, st.dir)))]

\* mutant: a pin that becomes an input loses its value bit
DirCommit_clearing(st, word) ==
    [st EXCEPT !.dir = Trunc32(word), !.value = BitAnd(st.value, Trunc32(word))]

\* "s->dir = value"
DirCommit(st, word) == [st EXCEPT !.dir = Trunc32(word)]

\* mutant: every offset that is neither IN nor DIR is taken for OUT
TakesOutBranch_fallthrough(st, offset, word) ==
    offset # GR_GPIO_REG_IN /\ offset # GR_GPIO_REG_DIR /\ st.value # word

\* mutant: the IN case falls through into the OUT case
TakesOutBranch_infalls(st, offset, word) ==
    offset \in {GR_GPIO_REG_IN, GR_GPIO_REG_OUT} /\ st.value # word

\* "(offset == GR_GPIO_REG_OUT) && (oldvalue != value)", oldvalue = s->value
TakesOutBranch(st, offset, word) ==
    offset = GR_GPIO_REG_OUT /\ st.value # word

\* "(offset == GR_GPIO_REG_DIR) && (oldvalue != value)", oldvalue = s->dir
TakesDirBranch(st, offset, word) ==
    offset = GR_GPIO_REG_DIR /\ st.dir # word

\* mutant: the register is updated before the lines are raised
gr_gpio_write_commitfirst(st, n, offset, word) ==
    IF TakesOutBranch(st, offset, word)
    THEN OutLoop(0, OutCommit(st, word), n, st.value, word)
    ELSE IF TakesDirBranch(st, offset, word)
    THEN DirLoop(0, DirCommit(st, word), n, st.dir, word)
    ELSE st

gr_gpio_write(st, n, offset, word) ==
    IF TakesOutBranch(st, offset, word)
    THEN OutCommit(OutLoop(0, st, n, st.value, word), word)
    ELSE IF TakesDirBranch(st, offset, word)
    THEN DirCommit(DirLoop(0, st, n, st.dir, word), word)
    ELSE st

(* ------------------------------ actions -------------------------------- *)

Cur == DevState(value, dir, <<>>)

Finish(st, o, r) ==
    /\ value' = st.value
    /\ dir' = st.dir
    /\ notif' = st.notif
    /\ op' = o
    /\ pre_value' = value
    /\ pre_dir' = dir
    /\ ret' = r
    /\ UNCHANGED <<ngpio, hist>>

NoOp == [kind |-> "init", offset |-> 0, size |-> 4, word |-> {}, line |-> 0,
         level |-> 0]

\* nothing is recorded across operations
NoHist == [mode |-> "none"]

Init ==
    /\ ngpio \in PinCounts
    /\ value = {}
    /\ dir = {}
    /\ notif = <<>>
    /\ op = NoOp
    /\ pre_value = {}
    /\ pre_dir = {}
    /\ ret = {}
    /\ hist = NoHist

\* ret is the value gr_gpio_read returns
BusRead ==
    \E offset \in Offsets, size \in Sizes :
        Finish(Cur,
               [NoOp EXCEPT !.kind = "read", !.offset = offset, !.size = size],
               gr_gpio_read(Cur, offset))

BusWrite ==
    \E offset \in Offsets, size \in Sizes :
        \E word \in WordsOf(size) :
            Finish(gr_gpio_write(Cur, ngpio, offset, word),
                   [NoOp EXCEPT !.kind = "write", !.offset = offset,
                                !.size = size, !.word = word],
                   {})

InputStimulus ==
    \E line \in TestPins \cap (0 .. ngpio - 1), level \in Levels :
        Finish(gr_gpio_IN_set(Cur, line, level),
               [NoOp EXCEPT !.kind = "stimulus", !.line = line, !.level = level],
               {})

DeviceReset ==
    Finish(gr_gpio_reset(Cur), [NoOp EXCEPT !.kind = "reset"], {})

Next == BusRead \/ BusWrite \/ InputStimulus \/ DeviceReset

Spec == Init /\ [][Next]_vars

(* ---------------- stimulus outside the configured pins ----------------- *)

\* gr_gpio_IN_set entered with a line of the 32-bit field that is not below
\* ngpio.  (A line outside 0..31 makes "1 << line" undefined and is left out.)
StimulusOutOfRange ==
    \E line \in TestPins \ (0 .. ngpio - 1), level \in Levels :
        Finish(gr_gpio_IN_set(Cur, line, level),
               [NoOp EXCEPT !.kind = "stimulus", !.line = line, !.level = level],
               {})

NextOOR == Next \/ StimulusOutOfRange

SpecOOR == Init /\ [][NextOOR]_vars

(* ------------------ the history of one pin's value bit ---------------- *)

\* The same operations, recording across them, for one pin, the bit last
\* written through OUT (lw), the level last reported by stimulus (ls), both
\* -1 while there is none, and the bit last stored by an update that the
\* direction of the pin let through (acc).  The last operation is not recorded.
Track(st, h) ==
    /\ value' = st.value
    /\ dir' = st.dir
    /\ hist' = h
    /\ UNCHANGED <<ngpio, notif, op, pre_value, pre_dir, ret>>

\* the level the board fed back on the pin during a write, or old if none
FedBack(st, n, pin, old) ==
    IF /\ pin = LOOPBACK_LINE
       /\ pin < n
       /\ \E k \in 1 .. Len(st.notif) :
              st.notif[k].kind = "out" /\ st.notif[k].line = pin
    THEN (CHOOSE e \in {st.notif[k] : k \in 1 .. Len(st.notif)} :
              e.kind = "out" /\ e.line = pin).level
    ELSE old

TrackInit ==
    /\ ngpio \in PinCounts
    /\ value = {}
    /\ dir = {}
    /\ notif = <<>>
    /\ op = NoOp
    /\ pre_value = {}
    /\ pre_dir = {}
    /\ ret = {}
    /\ \E p \in TestPins :
          hist = [mode |-> "track", pin |-> p, lw |-> -1, ls |-> -1, acc |-> 0]

TrackWrite ==
    \E offset \in Offsets, size \in Sizes :
        \E word \in WordsOf(size) :
            LET st == gr_gpio_write(Cur, ngpio, offset, word)
                b  == IF hist.pin \in word THEN 1 ELSE 0
            IN  Track(st,
                      [hist EXCEPT
                         !.lw  = IF offset = GR_GPIO_REG_OUT THEN b ELSE @,
                         !.ls  = FedBack(st, ngpio, hist.pin, @),
                         !.acc = IF offset = GR_GPIO_REG_OUT /\ hist.pin \in dir
                                 THEN b ELSE @])

TrackStimulus ==
    \E line \in TestPins \cap (0 .. ngpio - 1), level \in Levels :
        Track(gr_gpio_IN_set(Cur, line, level),
              [hist EXCEPT
                 !.ls  = IF line = hist.pin THEN level ELSE @,
                 !.acc = IF line = hist.pin /\ hist.pin \notin dir
                         THEN level ELSE @])

TrackReset ==
    Track(gr_gpio_reset(Cur), [hist EXCEPT !.acc = 0])

TrackNext == TrackWrite \/ TrackStimulus \/ TrackReset

SpecTrack == TrackInit /\ [][TrackNext]_vars

(* ------------------------- snapshot and restore ----------------------- *)

\* the fields vmstate_gr_gpio lists
vmstate_gr_gpio == {"value", "dir"}

\* mutant: the direction field is missing from the description
VmSave_valueonly(st) == [f \in {"value"} |-> st[f]]

\* saving copies the listed fields out of the device
VmSave(st) == [f \in vmstate_gr_gpio |-> st[f]]

\* loading copies the fields of the image back and leaves the rest alone
VmLoad(st, image) ==
    [f \in DOMAIN st |-> IF f \in DOMAIN image THEN image[f] ELSE st[f]]

\* hist holds the image last saved (image), the registers as they were when
\* it was saved (at), and whether the last operation was a restore
SnapInit ==
    /\ ngpio \in PinCounts
    /\ value = {}
    /\ dir = {}
    /\ notif = <<>>
    /\ op = NoOp
    /\ pre_value = {}
    /\ pre_dir = {}
    /\ ret = {}
    /\ hist = [mode |-> "snap", taken |-> FALSE, image |-> VmSave(Cur),
               at |-> [value |-> {}, dir |-> {}], restored |-> FALSE]

SnapWrite ==
    \E offset \in Offsets, size \in Sizes :
        \E word \in WordsOf(size) :
            Track(gr_gpio_write(Cur, ngpio, offset, word),
                  [hist EXCEPT !.restored = FALSE])

SnapStimulus ==
    \E line \in TestPins \cap (0 .. ngpio - 1), level \in Levels :
        Track(gr_gpio_IN_set(Cur, line, level), [hist EXCEPT !.restored = FALSE])

SnapReset ==
    Track(gr_gpio_reset(Cur), [hist EXCEPT !.restored = FALSE])

SnapSave ==
    Track(Cur, [hist EXCEPT !.taken = TRUE, !.image = VmSave(Cur),
                            !.at = [value |-> value, dir |-> dir],
                            !.restored = FALSE])

SnapRestore ==
    /\ hist.taken
    /\ Track(VmLoad(Cur, hist.image), [hist EXCEPT !.restored = TRUE])

SnapNext == SnapWrite \/ SnapStimulus \/ SnapReset \/ SnapSave \/ SnapRestore

SpecSnap == SnapInit /\ [][SnapNext]_vars

(* ------------------- the levels of the direction lines ---------------- *)

\* the direction lines at 1 once the notifications seq[k..] have been
\* delivered, starting from the lines in high; only lines below n are bound
RECURSIVE Deliver(_, _, _, _)
Deliver(seq, k, n, high) ==
    IF k > Len(seq) THEN high
    ELSE Deliver(seq, k + 1, n,
                 IF seq[k].kind = "dir" /\ seq[k].line < n
                 THEN IF seq[k].level = 1 THEN high \cup {seq[k].line}
                                          ELSE high \ {seq[k].line}
                 ELSE high)

\* hist holds the set of direction lines whose last delivered level is 1
\* (none delivered counts as 0) and whether no reset has happened so far
LineInit ==
    /\ ngpio \in PinCounts
    /\ value = {}
    /\ dir = {}
    /\ notif = <<>>
    /\ op = NoOp
    /\ pre_value = {}
    /\ pre_dir = {}
    /\ ret = {}
    /\ hist = [mode |-> "line", dir_line |-> {}, clean |-> TRUE]

LineWrite ==
    \E offset \in Offsets, size \in Sizes :
        \E word \in WordsOf(size) :
            LET st == gr_gpio_write(Cur, ngpio, offset, word)
            IN  Track(st, [hist EXCEPT
                             !.dir_line = Deliver(st.notif, 1, ngpio, @)])

LineStimulus ==
    \E line \in TestPins \cap (0 .. ngpio - 1), level \in Levels :
        LET st == gr_gpio_IN_set(Cur, line, level)
        IN  Track(st, [hist EXCEPT !.dir_line = Deliver(st.notif, 1, ngpio, @)])

LineReset ==
    LET st == gr_gpio_reset(Cur)
    IN  Track(st, [hist EXCEPT !.dir_line = Deliver(st.notif, 1, ngpio, @),
                               !.clean = FALSE])

LineNext == LineWrite \/ LineStimulus \/ LineReset

SpecLine == LineInit /\ [][LineNext]_vars

(* ------------------------- reading the last step ----------------------- *)

WasWrite(offset) == op.kind = "write" /\ op.offset = offset

WasRead(offset) == op.kind = "read" /\ op.offset = offset

WasStimulus == op.kind = "stimulus"

ValidOffsets == {GR_GPIO_REG_IN, GR_GPIO_REG_OUT, GR_GPIO_REG_DIR}

\* bit i of a word, as 0 or 1
Bit(w, i) == IF i \in w THEN 1 ELSE 0

\* how many notifications of this kind the last operation fired for pin i
Fired(kind, i) ==
    Cardinality({k \in 1 .. Len(notif) : notif[k].kind = kind /\ notif[k].line = i})

NoneFired(kind) == \A k \in 1 .. Len(notif) : notif[k].kind # kind

(* -------------------------------- claims ------------------------------- *)

\* C1: after write(OUT, w) every bit of value is the bit of w where the pin's
\* direction is output and the pre-write bit where it is input, and direction
\* is unchanged.
C1_OutWriteMasksByDirection ==
    WasWrite(GR_GPIO_REG_OUT) =>
        /\ \A i \in Bits32 :
              Bit(value, i) = IF i \in pre_dir THEN Bit(op.word, i) ELSE Bit(pre_value, i)
        /\ dir = pre_dir

\* an OUT write that changed an output pin while the word disagreed with the
\* value of an input pin
C1_Witness ==
    /\ WasWrite(GR_GPIO_REG_OUT)
    /\ value # pre_value
    /\ \E i \in Bits32 \ pre_dir : Bit(op.word, i) # Bit(pre_value, i)

\* C2: write(OUT, w) fires exactly one output-line notification, carrying the
\* new level, for each output pin whose value bit changed, none for any other
\* pin, and no direction-line notification.
C2_OutWriteNotifiesChangedOutputs ==
    WasWrite(GR_GPIO_REG_OUT) =>
        /\ \A i \in Bits32 :
              Fired("out", i) =
                  IF i \in pre_dir /\ Bit(pre_value, i) # Bit(value, i) THEN 1 ELSE 0
        /\ \A k \in 1 .. Len(notif) : notif[k].level = Bit(value, notif[k].line)
        /\ NoneFired("dir")

\* an OUT write that notified an output pin while the word also differed on an
\* input pin, which stayed silent
C2_Witness ==
    /\ WasWrite(GR_GPIO_REG_OUT)
    /\ \E i \in pre_dir : Fired("out", i) = 1
    /\ \E j \in Bits32 \ pre_dir : Bit(op.word, j) # Bit(pre_value, j) /\ Fired("out", j) = 0

\* C3: write(DIR, w) fires exactly one direction-line notification, carrying
\* the new direction bit, for each pin whose direction bit differs between the
\* old direction and w, none for the others, and no output-line notification.
C3_DirWriteNotifiesChangedPins ==
    WasWrite(GR_GPIO_REG_DIR) =>
        /\ \A i \in Bits32 :
              Fired("dir", i) = IF Bit(pre_dir, i) # Bit(op.word, i) THEN 1 ELSE 0
        /\ \A k \in 1 .. Len(notif) : notif[k].level = Bit(op.word, notif[k].line)
        /\ NoneFired("out")

\* a DIR write that turned one pin into an input (level 0) and kept another
\* pin an output, which stayed silent
C3_Witness ==
    /\ WasWrite(GR_GPIO_REG_DIR)
    /\ \E k \in 1 .. Len(notif) : notif[k].level = 0
    /\ \E j \in pre_dir \cap op.word : Fired("dir", j) = 0

\* C4: after write(DIR, w) direction is w verbatim and value is unchanged.
C4_DirWriteVerbatim ==
    WasWrite(GR_GPIO_REG_DIR) => dir = op.word /\ value = pre_value

\* a DIR write that moved a pin driving 1 from output to input
C4_Witness ==
    /\ WasWrite(GR_GPIO_REG_DIR)
    /\ \E i \in pre_dir \ dir : i \in value

\* C5: input stimulus on a pin whose direction is output changes neither
\* value nor direction and fires no notification.
C5_StimulusOnOutputIgnored ==
    WasStimulus /\ op.line \in pre_dir =>
        value = pre_value /\ dir = pre_dir /\ notif = << >>

\* a stimulus on an output pin whose level differs from the driven bit
C5_Witness ==
    /\ WasStimulus
    /\ op.line \in pre_dir
    /\ op.level # Bit(pre_value, op.line)

\* C6: input stimulus on a pin whose direction is input sets that pin's value
\* bit to the level, leaves the other value bits and direction alone, and
\* fires no notification.
C6_StimulusOnInputSetsBit ==
    WasStimulus /\ op.line \notin pre_dir =>
        /\ \A i \in Bits32 :
              Bit(value, i) = IF i = op.line THEN op.level ELSE Bit(pre_value, i)
        /\ dir = pre_dir
        /\ notif = << >>

\* a stimulus that cleared the bit of an input pin while another bit was set
C6_Witness ==
    /\ WasStimulus
    /\ op.line \notin pre_dir
    /\ op.level = 0
    /\ op.line \in pre_value
    /\ value # {}

\* C7: after reset, and in the freshly constructed controller, value and
\* direction are both 0.
C7_ResetZeroes ==
    op.kind \in {"reset", "init"} => value = {} /\ dir = {}

\* a reset of a controller that had output pins and set value bits
C7_Witness ==
    /\ op.kind = "reset"
    /\ pre_value # {}
    /\ pre_dir # {}

\* C8: a read of IN and a read of OUT both return value, and a read of DIR
\* returns direction.
C8_ReadsReturnState ==
    /\ WasRead(GR_GPIO_REG_IN) => ret = value
    /\ WasRead(GR_GPIO_REG_OUT) => ret = value
    /\ WasRead(GR_GPIO_REG_DIR) => ret = dir
    /\ gr_gpio_read(Cur, GR_GPIO_REG_IN) = gr_gpio_read(Cur, GR_GPIO_REG_OUT)

\* a read of IN in a state with an output pin driving 1 and an input pin at 0
C8_Witness ==
    /\ WasRead(GR_GPIO_REG_IN)
    /\ ngpio < GR_GPIO_PINS
    /\ value \cap dir # {}
    /\ value # dir
    /\ ret # {}

\* C9: a read or write at an offset other than IN, OUT and DIR changes neither
\* value nor direction and fires no notification, and the read returns 0.
C9_InvalidOffsetIsNoOp ==
    op.kind \in {"read", "write"} /\ op.offset \notin ValidOffsets =>
        /\ value = pre_value
        /\ dir = pre_dir
        /\ notif = << >>
        /\ op.kind = "read" => ret = {}

\* a write, at an undefined offset, of a word that an OUT write would have
\* stored and notified
C9_Witness ==
    /\ op.kind = "write"
    /\ op.offset \notin ValidOffsets
    /\ \E i \in pre_dir : Bit(op.word, i) # Bit(pre_value, i)

\* C10: every bit of value and of direction at an index >= the configured pin
\* count is 0.
C10_BitsBeyondPinCountZero ==
    \A i \in Bits32 : i >= ngpio => i \notin value /\ i \notin dir

C12_NarrowOrMisalignedRejected ==
    op.kind \in {"read", "write"} /\ (op.size # 4 \/ op.offset % 4 # 0) =>
        /\ value = pre_value
        /\ dir = pre_dir
        /\ notif = << >>
        /\ op.kind = "read" => GuestSees(ret, op.size) = {}

\* C13 as stated: whenever a pin (an index below the pin count) is an output
\* its value bit is the bit last written for it through OUT, and whenever it
\* is an input its value bit is the level last reported for it by stimulus.
C13_ValueIsLastWrittenOrReported ==
    hist.mode = "track" /\ hist.pin < ngpio =>
        /\ hist.pin \in dir /\ hist.lw # -1 => Bit(value, hist.pin) = hist.lw
        /\ hist.pin \notin dir /\ hist.ls # -1 => Bit(value, hist.pin) = hist.ls

\* C13 as amended: the value bit of a pin is the bit last stored for it by an
\* update its direction let through (an OUT write made while the pin was an
\* output, a stimulus made while it was an input), 0 if there has been none
\* since construction or the last reset.
C13_ValueIsLastAcceptedUpdate ==
    hist.mode = "track" => Bit(value, hist.pin) = hist.acc

\* an output pin driving 1 whose last stimulus reported 0 and was refused
C13_Witness ==
    /\ hist.mode = "track"
    /\ hist.pin \in dir
    /\ hist.pin < ngpio
    /\ hist.lw = 1
    /\ hist.ls = 0
    /\ hist.acc = 1
    /\ hist.pin \in value

\* C14: a read at any offset and a write of any word to IN leave value and
\* direction unchanged and fire no notification; only OUT writes, DIR writes,
\* input stimulus and reset change value or direction.
C14_OnlyOutDirStimulusResetMutate ==
    /\ op.kind = "read" \/ WasWrite(GR_GPIO_REG_IN) =>
          value = pre_value /\ dir = pre_dir /\ notif = << >>
    /\ value # pre_value \/ dir # pre_dir =>
          \/ WasWrite(GR_GPIO_REG_OUT)
          \/ WasWrite(GR_GPIO_REG_DIR)
          \/ op.kind \in {"stimulus", "reset"}

\* a write to IN of a word that, written to OUT, would have changed an output
\* pin
C14_Witness ==
    /\ WasWrite(GR_GPIO_REG_IN)
    /\ \E i \in pre_dir : Bit(op.word, i) # Bit(pre_value, i)

\* C15: the notifications of one OUT write, and of one DIR write, are
\* delivered in strictly ascending order of pin index.
C15_NotificationsAscending ==
    op.kind = "write" =>
        \A j, k \in 1 .. Len(notif) : j < k => notif[j].line < notif[k].line

\* an OUT write that notified two pins
C15_Witness ==
    /\ WasWrite(GR_GPIO_REG_OUT)
    /\ Len(notif) >= 2

\* C16: right after a snapshot taken in state (v, d) is restored, whatever
\* happened in between, reads of IN and OUT return v and a read of DIR
\* returns d.
C16_RestoreBringsBackRegisters ==
    hist.mode = "snap" /\ hist.restored =>
        /\ gr_gpio_read(Cur, GR_GPIO_REG_IN) = hist.at.value
        /\ gr_gpio_read(Cur, GR_GPIO_REG_OUT) = hist.at.value
        /\ gr_gpio_read(Cur, GR_GPIO_REG_DIR) = hist.at.dir

\* a snapshot with an output pin driving 1 and an input pin, restored
C16_Witness ==
    /\ hist.mode = "snap"
    /\ hist.restored
    /\ hist.at.value \cap hist.at.dir # {}
    /\ hist.at.dir # TestPins
    /\ value = hist.at.value
    /\ dir = hist.at.dir

\* C17: when the consumer of output line 22 feeds the level back into the
\* input entry point, direction bit 22 is 1 at that moment, the stimulus
\* leaves value as it was, line 22 is raised once only, and the OUT write ends
\* in the state it reaches when no line has a consumer.
C17_LoopbackDiscarded ==
    WasWrite(GR_GPIO_REG_OUT) =>
        /\ \A k \in 1 .. Len(notif) :
              notif[k].line = LOOPBACK_LINE /\ LOOPBACK_LINE < ngpio =>
                  /\ notif[k].kind = "out"
                  /\ LOOPBACK_LINE \in notif[k].seen_dir
                  /\ notif[k].left_value = notif[k].seen_value
        /\ Fired("out", LOOPBACK_LINE) <= 1
        /\ LET alone == gr_gpio_write(DevState(pre_value, pre_dir, << >>), 0,
                                      GR_GPIO_REG_OUT, op.word)
           IN  value = alone.value /\ dir = alone.dir

\* on the board (32 pins), an OUT write that raised line 22 with a level other
\* than the value bit the fed-back stimulus found
C17_Witness ==
    /\ WasWrite(GR_GPIO_REG_OUT)
    /\ ngpio = GR_GPIO_PINS
    /\ \E k \in 1 .. Len(notif) :
          /\ notif[k].line = LOOPBACK_LINE
          /\ notif[k].level # Bit(notif[k].seen_value, LOOPBACK_LINE)

\* C18: every notification of an OUT or DIR write is delivered while value and
\* direction still hold their pre-write contents.
C18_NotifiedBeforeCommit ==
    op.kind = "write" =>
        \A k \in 1 .. Len(notif) :
            notif[k].seen_value = pre_value /\ notif[k].seen_dir = pre_dir

\* an OUT write and a DIR write that notified and then changed the register
C18_Witness ==
    /\ op.kind = "write"
    /\ Len(notif) >= 1
    /\ \/ WasWrite(GR_GPIO_REG_OUT) /\ value # pre_value
       \/ WasWrite(GR_GPIO_REG_DIR) /\ dir # pre_dir

\* C19: reset fires no output-line and no direction-line notification.
C19_ResetIsSilent ==
    op.kind = "reset" => notif = << >>

\* a reset of a controller with an output pin driving 1
C19_Witness ==
    /\ op.kind = "reset"
    /\ pre_value \cap pre_dir # {}
    /\ value = {}
    /\ dir = {}

\* C20: as long as no reset has happened, after each operation the direction
\* bit of every pin equals the level last delivered on its direction line
\* (0 if none was delivered).
C20_DirectionIsLastDeliveredLevel ==
    hist.mode = "line" /\ hist.clean =>
        \A i \in 0 .. ngpio - 1 : Bit(dir, i) = Bit(hist.dir_line, i)

\* no reset so far, one pin last told "output", another pin an input driven
\* to 1 by stimulus
C20_Witness ==
    /\ hist.mode = "line"
    /\ hist.clean
    /\ hist.dir_line # {}
    /\ \E i \in value \ dir : i < ngpio

====
